---- MODULE Spec2Model ----
(***************************************************************************)
(* A model of src/src/qip/pipeline.rs: the graph resolver                  *)
(* (get_opfns_and_frontier), the pipeline executor (run_with_statebuilder  *)
(* and fold_modify_state), the local state vector (LocalQuantumState) and  *)
(* the matrix extractor (make_circuit_matrix).                             *)
(***************************************************************************)
EXTENDS Integers, Sequences, FiniteSets, TLC

\* ------------------------------------------------------------------ bounds

\* Number of qubit handles of a graph the resolver is run on.
MaxQubits == 5
\* Number of qubit handles of a graph a whole pipeline run is followed on.
MaxRunQubits == 4
\* Largest number of indices (q.indices.len()) of an origin qubit.
MaxWidth == 2
\* Largest measurement id used by a MeasureState modifier.
MaxMeasureId == 2
\* Largest qubit count asked of new_from_initial_states, and largest index an
\* initial-state entry names (an index equal to the count asked widens it).
MaxN == 2
\* Largest size of a list of initial-state entries: its number of entries
\* plus the number of indices they name.
MaxSize == 4
\* Largest number of apply_op and measure calls made on one state.
MaxCalls == 3
\* Largest qubit count a circuit matrix is extracted for.
MaxMatrixN == 3
\* Number of pipeline runs a caller makes one after the other.
MaxRuns == 2

VARIABLES
    \* the qubit graph the pipeline is run on (crate::qubits, read only)
    parent,         \* q.parent of every qubit handle
    id,             \* q.id: the key of Ord/PartialEq for Qubit
    width,          \* q.indices.len()
    terminal,       \* the handle given to run / run_with_init
    entry,          \* which entry point was called
    earlier,        \* history: the records the caller's earlier runs returned
    \* get_opfns_and_frontier
    pc,
    heap,           \* BinaryHeap<&Qubit>: a bag of handles
    frontier_qubits,
    fn_queue,       \* VecDeque<&StateModifier>: each named by its qubit
    popped,         \* history: the handles in the order heap.pop returned them
    \* run_with_statebuilder
    ops,            \* the resolved sequence the fold consumes
    next_op,        \* position of the fold in ops
    qs,             \* the QS value of the fold's accumulator
    mr,             \* MeasuredResults.results
    calls,          \* history: the calls made on qs, in order
    \* LocalQuantumState::new_from_initial_states
    threshold,      \* state_ops::PARALLEL_THRESHOLD
    req_n,          \* the argument n
    states,         \* the argument states: a list of QubitInitialState
    lqs,            \* the LocalQuantumState built, or the panic that ended the call
    \* LocalQuantumState::apply_op, measure and get_state
    ncalls,         \* history: the apply_op and measure calls made on lqs
    last_call,      \* history: the last call, and the current buffer as it found it
    exported,       \* what get_state returned
    pending,        \* par_iter_mut: the output positions whose step has not run
    \* make_circuit_matrix
    mat_n,          \* the argument n
    natural_order,  \* the argument natural_order
    mat_i,          \* the row being built
    mat             \* the rows collected

vars == <<parent, id, width, terminal, entry, earlier, pc, heap, frontier_qubits,
          fn_queue, popped, ops, next_op, qs, mr, calls,
          threshold, req_n, states, lqs, ncalls, last_call, exported, pending,
          mat_n, natural_order, mat_i, mat>>

graphVars == <<parent, id, width, terminal, entry, earlier>>
resolverVars == <<heap, frontier_qubits, fn_queue, popped>>
foldVars == <<ops, next_op, qs, mr, calls>>
argVars == <<threshold, req_n, states>>
callVars == <<ncalls, last_call, exported, pending>>
matrixVars == <<mat_n, natural_order, mat_i, mat>>
stateVars == <<argVars, lqs, callVars, matrixVars>>

\* ------------------------------------------------------------ qubit graph

\* The handles of the graph, named by creation rank.
Nodes == DOMAIN parent

\* StateModifierType: UnitaryOp(op) or MeasureState(id, indices); NoModifier
\* is the None of Owned's Option<StateModifier>.
NoModifier == [kind |-> "None", id |-> 0]
UnitaryOp == [kind |-> "UnitaryOp", id |-> 0]
MeasureState(m) == [kind |-> "MeasureState", id |-> m]
Modifiers == {NoModifier, UnitaryOp} \cup {MeasureState(m) : m \in 1..MaxMeasureId}
\* The resolver reads only whether an Owned relation carries a modifier.
ResolverModifiers == {NoModifier, UnitaryOp}

\* Option<Parent>: None, Some(Owned(parents, modifier)), Some(Shared(parent)).
\* Owned's Vec of parents is kept as the set of its handles: the resolver
\* only pushes them on the heap, which orders them by id.
NoParent == [tag |-> "None", parents |-> {}, modifier |-> NoModifier]
Owned(ps, m) == [tag |-> "Owned", parents |-> ps, modifier |-> m]
Shared(p) == [tag |-> "Shared", parents |-> {p}, modifier |-> NoModifier]

\* Handles held by value in some Owned(parents, _) of g.
OwnedIn(g) == UNION {g[q].parents : q \in {x \in DOMAIN g : g[x].tag = "Owned"}}
\* Handles held behind a shared pointer by some Shared(_) of g.
SharedIn(g) == UNION {g[q].parents : q \in {x \in DOMAIN g : g[x].tag = "Shared"}}

\* The parent relations a new handle k can be given over the graph g of the
\* handles created before it: parents pre-exist, an Owned parent is moved
\* into its one child, and a handle behind a shared pointer is never moved.
ParentChoices(k, g, mods) ==
    {NoParent}
    \cup {Shared(p) : p \in (1..(k-1)) \ OwnedIn(g)}
    \cup {Owned(ps, m) : ps \in (SUBSET ((1..(k-1)) \ (OwnedIn(g) \cup SharedIn(g)))) \ {{}},
                         m \in mods}

RECURSIVE Graphs(_, _)
Graphs(k, mods) ==
    IF k = 0 THEN {<<>>}
    ELSE UNION {{Append(g, p) : p \in ParentChoices(k, g, mods)} : g \in Graphs(k-1, mods)}

\* The widths of a graph's handles: an origin has 1..MaxWidth indices; the
\* pipeline reads the width of origins only.
Widths(g) ==
    {w \in [DOMAIN g -> 1..MaxWidth] : \A q \in DOMAIN g : g[q].tag # "None" => w[q] = 1}

\* The handles g reaches from handle t through parent links, t included.
RECURSIVE ReachFrom(_, _, _)
ReachFrom(g, seen, todo) ==
    IF todo = {} THEN seen
    ELSE LET nxt == UNION {g[q].parents : q \in todo}
         IN ReachFrom(g, seen \cup todo, nxt \ (seen \cup todo))
Reach(g, t) == ReachFrom(g, {}, {t})

\* A terminal handle holds its whole graph (parents are owned by value or
\* behind a shared pointer): the graphs of at most n handles whose last
\* created handle reaches every other one.
TerminalGraphs(n, mods) ==
    UNION {{g \in Graphs(k, mods) : Reach(g, k) = 1..k} : k \in 1..n}

\* Creation order: a handle's id is its creation rank.
CreationOrder(g) == [q \in DOMAIN g |-> q]

\* -------------------------------------------------- get_opfns_and_frontier

EmptyHeap == [q \in Nodes |-> 0]
RECURSIVE HeapCount(_, _)
HeapCount(h, k) == IF k = 0 THEN 0 ELSE h[k] + HeapCount(h, k - 1)
HeapLen(h) == HeapCount(h, Len(parent))
HeapPush(h, q) == [h EXCEPT ![q] = @ + 1]

\* A slip: only one of the parents is pushed.
HeapExtendOne(h, qsset) ==
    IF qsset = {} THEN h ELSE HeapPush(h, CHOOSE x \in qsset : TRUE)

\* BinaryHeap::extend(parents).
RECURSIVE HeapExtend(_, _)
HeapExtend(h, qsset) ==
    IF qsset = {} THEN h
    ELSE LET q == CHOOSE x \in qsset : TRUE
         IN HeapExtend(HeapPush(h, q), qsset \ {q})

\* BinaryHeap::pop of a max-heap ordered by Ord for Qubit (the id).
HeapTop(h) == CHOOSE q \in Nodes : h[q] > 0 /\ \A r \in Nodes : h[r] > 0 => id[r] <= id[q]
HeapPopped(h) == [h EXCEPT ![HeapTop(h)] = @ - 1]

\* A slip: the modifier is pushed to the back.
push_back(queue, m) == Append(queue, m)

\* VecDeque::push_front.
push_front(queue, m) == <<m>> \o queue

\* A slip: the pending check never finds the parent.
qubit_never_in_heap(q, h) == FALSE
\* A slip: the pending check always finds the parent.
qubit_always_in_heap(q, h) == TRUE

qubit_in_heap(q, h) == \E hq \in Nodes : h[hq] > 0 /\ id[hq] = id[q]

\* heap.push(q) and the empty frontier_qubits and fn_queue.
ResolveStart ==
    /\ pc = "start"
    /\ heap' = HeapPush(EmptyHeap, terminal)
    /\ frontier_qubits' = <<>>
    /\ fn_queue' = <<>>
    /\ popped' = <<>>
    /\ pc' = "resolve"
    /\ UNCHANGED <<graphVars, foldVars, stateVars>>

\* One iteration of `while heap.len() > 0`.
ResolveStep ==
    /\ pc = "resolve"
    /\ HeapLen(heap) > 0
    /\ LET q == HeapTop(heap)
           rest == HeapPopped(heap)
       IN /\ popped' = Append(popped, q)
          /\ \/ /\ parent[q].tag = "None"
                /\ frontier_qubits' = Append(frontier_qubits, q)
                /\ heap' = rest
                /\ UNCHANGED fn_queue
             \/ /\ parent[q].tag = "Owned"
                /\ fn_queue' = IF parent[q].modifier # NoModifier
                               THEN push_front(fn_queue, q)
                               ELSE fn_queue
                /\ heap' = HeapExtend(rest, parent[q].parents)
                /\ UNCHANGED frontier_qubits
             \/ /\ parent[q].tag = "Shared"
                /\ LET p == CHOOSE x \in parent[q].parents : TRUE
                   IN heap' = IF ~qubit_in_heap(p, rest) THEN HeapPush(rest, p) ELSE rest
                /\ UNCHANGED <<frontier_qubits, fn_queue>>
    /\ UNCHANGED <<graphVars, foldVars, stateVars, pc>>

\* The loop ends; (frontier_qubits, fn_queue.into_iter().collect()) is returned
\* to run_with_statebuilder.
ResolveReturn ==
    /\ pc = "resolve"
    /\ HeapLen(heap) = 0
    /\ ops' = fn_queue
    /\ pc' = "build"
    /\ UNCHANGED <<graphVars, resolverVars, stateVars, next_op, qs, mr, calls>>

\* --------------------------------------------------- run_with_statebuilder

\* What the measure kernel can return: (outcome, probability).
MeasureResults == {[outcome |-> 0, prob |-> "p0"], [outcome |-> 1, prob |-> "p1"]}
NoResult == [outcome |-> 0, prob |-> "none"]

\* MeasuredResults::new(): the empty map.
EmptyRecord == <<>>
\* A slip: an entry already present is kept (entry().or_insert()).
InsertIfAbsent(m, k, v) == m @@ (k :> v)

\* A slip: the map is replaced by the one entry.
InsertAlone(m, k, v) == (k :> v)

\* HashMap::insert: a later value replaces the earlier one under its key.
Insert(m, k, v) == (k :> v) @@ m

RECURSIVE SumWidths(_)
SumWidths(fs) == IF fs = <<>> THEN 0 ELSE width[Head(fs)] + SumWidths(Tail(fs))

\* The closure run and run_with_init hand to run_with_statebuilder: QS::new(n)
\* or QS::new_from_initial_states(n, states), n the sum of the frontier's widths.
state_builder(fs) ==
    [ctor |-> IF entry = "run" THEN "new" ELSE "new_from_initial_states",
     n |-> SumWidths(fs)]

\* let state = state_builder(frontier), and the fold's initial accumulator.
BuildState ==
    /\ pc = "build"
    /\ entry \in {"run", "run_with_init"}
    /\ qs' = state_builder(frontier_qubits)
    /\ mr' = EmptyRecord
    /\ calls' = <<>>
    /\ next_op' = 1
    /\ pc' = "fold"
    /\ UNCHANGED <<graphVars, resolverVars, stateVars, ops>>

\* A slip: the sequence is folded from its back.
OpAtRev(k) == ops[Len(ops) + 1 - k]

\* The modifier the fold hands to fold_modify_state at its k-th step.
OpAt(k) == ops[k]

\* One step of ops.into_iter().fold(.., fold_modify_state).
fold_modify_state ==
    /\ pc = "fold"
    /\ next_op <= Len(ops)
    /\ LET m == OpAt(next_op)
           modifier == parent[m].modifier
       IN \/ /\ modifier.kind = "UnitaryOp"
             /\ calls' = Append(calls, [fn |-> "apply_op", modifier |-> m, result |-> NoResult])
             /\ UNCHANGED mr
          \/ /\ modifier.kind = "MeasureState"
             /\ \E result \in MeasureResults :
                   /\ calls' = Append(calls, [fn |-> "measure", modifier |-> m, result |-> result])
                   /\ mr' = Insert(mr, modifier.id, result)
    /\ next_op' = next_op + 1
    /\ UNCHANGED <<graphVars, resolverVars, stateVars, ops, qs, pc>>

\* The fold's iterator is exhausted: (state, measured results) is returned.
RunReturn ==
    /\ pc = "fold"
    /\ next_op > Len(ops)
    /\ pc' = "done"
    /\ UNCHANGED <<graphVars, resolverVars, stateVars, foldVars>>

\* ------------------------------------------------------ LocalQuantumState

RECURSIVE Pow2(_)
Pow2(k) == IF k = 0 THEN 1 ELSE 2 * Pow2(k - 1)
\* x >> k, x << k and bit k of x, on values far below 2^64.
Shr(x, k) == x \div Pow2(k)
Shl(x, k) == x * Pow2(k)
Max(a, b) == IF a >= b THEN a ELSE b
SetMax(S) == CHOOSE x \in S : \A y \in S : y <= x

\* A QubitInitialState: (indices, FullState(vals)) or (indices, Index(index)).
FullState(indices, vals) == [indices |-> indices, kind |-> "FullState", vals |-> vals, index |-> 0]
Index(indices, k) == [indices |-> indices, kind |-> "Index", vals |-> <<>>, index |-> k]

\* No state: before the call, or after a panic of the call.
NoState == [panicked |-> FALSE, n |-> 0, state |-> <<>>, arena |-> <<>>, multithread |-> FALSE,
            state_buf |-> "none", arena_buf |-> "none"]
Panicked == [panicked |-> TRUE, n |-> 0, state |-> <<>>, arena |-> <<>>, multithread |-> FALSE,
             state_buf |-> "none", arena_buf |-> "none"]

\* state_ops::sub_to_full(n, mat_indices, sub_index, base): bit j of sub_index
\* becomes bit n - 1 - mat_indices[j] of base. This is the convention of the
\* FullState branch (superindex_delta) and of make_circuit_matrix, whose
\* natural order gives qubit 0 the lowest bit of the column index.
RECURSIVE sub_to_full(_, _, _, _)
sub_to_full(n, indices, sub_index, base) ==
    IF indices = <<>> THEN base
    ELSE LET pos == n - 1 - Head(indices)
             bit == sub_index % 2
             cleared == base - Shl(Shr(base, pos) % 2, pos)
         IN sub_to_full(n, Tail(indices), Shr(sub_index, 1), cleared + Shl(bit, pos))

\* states.iter().map(|(indices, _)| indices).cloned().flatten()
AllIndices(sts) == UNION {{sts[e].indices[j] : j \in DOMAIN sts[e].indices} : e \in DOMAIN sts}

\* let n = max_init_n.map(|m| max(n, m)).unwrap_or(n)
WidenedN(n, sts) ==
    IF AllIndices(sts) = {} THEN n ELSE Max(n, SetMax(AllIndices(sts)) + 1)

\* The sum of indices.len() over the FullState entries.
RECURSIVE NFullIndices(_)
NFullIndices(sts) ==
    IF sts = <<>> THEN 0
    ELSE (IF Head(sts).kind = "FullState" THEN Len(Head(sts).indices) ELSE 0)
         + NFullIndices(Tail(sts))

\* The fold of sub_to_full over the Index entries, from acc.
RECURSIVE Template(_, _, _)
Template(n, sts, acc) ==
    IF sts = <<>> THEN acc
    ELSE Template(n, Tail(sts),
                  IF Head(sts).kind = "Index"
                  THEN sub_to_full(n, Head(sts).indices, Head(sts).index, acc)
                  ELSE acc)

\* A slip: bit j is put at bit indx of the address, not at bit n - 1 - indx.
RECURSIVE SuperindexDeltaLow(_, _, _)
SuperindexDeltaLow(n, indices, bits) ==
    IF indices = <<>> THEN 0
    ELSE Shl(bits % 2, Head(indices)) + SuperindexDeltaLow(n, Tail(indices), Shr(bits, 1))

\* A slip: the first index takes the highest bit of the sub-index, not bit 0.
RECURSIVE SuperindexDeltaRev(_, _, _)
SuperindexDeltaRev(n, indices, bits) ==
    IF indices = <<>> THEN 0
    ELSE Shl(Shr(bits, Len(indices) - 1) % 2, n - 1 - Head(indices))
         + SuperindexDeltaRev(n, Tail(indices), bits % Pow2(Len(indices) - 1))

\* indices.iter().enumerate().map(|(j, indx)| bit j of bits << (n - 1 - indx)).sum()
RECURSIVE SuperindexDelta(_, _, _)
SuperindexDelta(n, indices, bits) ==
    IF indices = <<>> THEN 0
    ELSE Shl(bits % 2, n - 1 - Head(indices)) + SuperindexDelta(n, Tail(indices), Shr(bits, 1))

\* The fold over the entries for the combination i, from the accumulator
\* acc = (superindex_acc, sub_index_offset, val_acc). A FullState shorter than
\* its sub-index panics (vals[val_index_bits]).
RECURSIVE FoldFull(_, _, _, _)
FoldFull(n, sts, i, acc) ==
    IF sts = <<>> \/ acc.panicked THEN acc
    ELSE LET st == Head(sts) IN
         IF st.kind = "FullState"
         THEN LET index_mask == Shl(1, Len(st.indices)) - 1
                  val_index_bits == Shr(i, acc.offset) % (index_mask + 1)
              IN IF val_index_bits >= Len(st.vals)
                 THEN [acc EXCEPT !.panicked = TRUE]
                 ELSE FoldFull(n, Tail(sts), i,
                        [panicked |-> FALSE,
                         superindex |-> acc.superindex + SuperindexDelta(n, st.indices, val_index_bits),
                         offset |-> acc.offset + Len(st.indices),
                         val |-> acc.val * st.vals[val_index_bits + 1]])
         ELSE FoldFull(n, Tail(sts), i, acc)

\* The address the combination i is written to: delta_index + template.
WriteAddress(delta_index, template) == delta_index + template

\* (0 .. 1 << n_fullindices).for_each: the writes into cvec for the
\* combinations i, i + 1, ..; a write beyond the vector panics.
RECURSIVE WriteAll(_, _, _, _, _)
WriteAll(n, sts, template, cvec, i) ==
    IF i >= Shl(1, NFullIndices(sts)) THEN [panicked |-> FALSE, cvec |-> cvec]
    ELSE LET acc == FoldFull(n, sts, i, [panicked |-> FALSE, superindex |-> 0, offset |-> 0, val |-> 1])
             addr == WriteAddress(acc.superindex, template)
         IN IF acc.panicked \/ addr >= Len(cvec)
            THEN [panicked |-> TRUE, cvec |-> cvec]
            ELSE WriteAll(n, sts, template, [cvec EXCEPT ![addr + 1] = acc.val], i + 1)

\* The vector of 1 << n zeros; address a is element a + 1.
Zeros(n) == [a \in 1..Shl(1, n) |-> 0]

\* The qubit count the state is built with.
BuiltN(n, sts) == WidenedN(n, sts)

new_from_initial_states(n0, sts) ==
    LET n == BuiltN(n0, sts)
        w == WriteAll(n, sts, Template(n, sts, 0), Zeros(n), 0)
    IN IF w.panicked THEN Panicked
       ELSE [panicked |-> FALSE, n |-> n, state |-> w.cvec, arena |-> w.cvec,
             multithread |-> n > threshold,
             \* the allocation each Vec owns: state is cvec.clone(), arena is cvec
             state_buf |-> "clone", arena_buf |-> "cvec"]

\* Nothing called on a state, nothing exported, no matrix asked for.
InitCalls ==
    /\ ncalls = 0
    /\ last_call = [fn |-> "none", found |-> <<>>, result |-> NoResult]
    /\ exported = [returned |-> FALSE, natural_order |-> FALSE, out |-> <<>>, buf |-> "none"]
    /\ pending = {}
InitMatrix ==
    /\ mat_n = 0
    /\ natural_order = FALSE
    /\ mat_i = 0
    /\ mat = <<>>

\* ---- the inputs of new_from_initial_states

\* The index lists of length len over 0..MaxN that name no index twice.
RECURSIVE IndexLists(_)
IndexLists(len) ==
    IF len = 0 THEN {<<>>}
    ELSE UNION {{Append(l, x) : x \in (0..MaxN) \ {l[j] : j \in DOMAIN l}} : l \in IndexLists(len - 1)}

\* The FullState vectors over a sub-basis of 2^len states: each basis vector,
\* and two vectors without zeros whose products tell the sub-indices apart.
BasisVector(len, k) == [s \in 1..Pow2(len) |-> IF s = k + 1 THEN 1 ELSE 0]
RECURSIVE Power(_, _)
Power(b, e) == IF e = 0 THEN 1 ELSE b * Power(b, e - 1)
FullVectors(len) ==
    {BasisVector(len, k) : k \in 0..(Pow2(len) - 1)}
    \cup {[s \in 1..Pow2(len) |-> Power(2, s)], [s \in 1..Pow2(len) |-> Power(3, s)]}

\* The entries over len indices.
Entries(len) ==
    UNION {{FullState(l, v) : v \in FullVectors(len)} \cup {Index(l, k) : k \in 0..(Pow2(len) - 1)}
           : l \in IndexLists(len)}

\* The size of a list of entries: its entries plus the indices they name.
RECURSIVE Size(_)
Size(sts) == IF sts = <<>> THEN 0 ELSE 1 + Len(Head(sts).indices) + Size(Tail(sts))

\* PARALLEL_THRESHOLD is set outside this file: any value that tells two
\* built qubit counts apart, or none.
Thresholds == {0, MaxN}

\* The caller puts one more entry on the list it will pass.
PushEntry ==
    /\ pc = "init_args"
    /\ \E len \in 0..(MaxN + 1) :
          /\ Size(states) + 1 + len <= MaxSize
          /\ \E e \in Entries(len) : states' = Append(states, e)
    /\ UNCHANGED <<graphVars, resolverVars, foldVars, threshold, req_n, lqs, pc,
                   callVars, matrixVars>>

Build ==
    /\ pc = "init_args"
    /\ lqs' = new_from_initial_states(req_n, states)
    /\ pc' = "built"
    /\ UNCHANGED <<graphVars, resolverVars, foldVars, argVars, callVars, matrixVars>>

InitInit ==
    /\ parent = <<NoParent>>
    /\ id = CreationOrder(parent)
    /\ width = <<1>>
    /\ terminal = 1
    /\ entry = "none"
    /\ earlier = <<>>
    /\ heap = EmptyHeap
    /\ frontier_qubits = <<>>
    /\ fn_queue = <<>>
    /\ popped = <<>>
    /\ ops = <<>>
    /\ next_op = 1
    /\ qs = [ctor |-> "none", n |-> 0]
    /\ mr = EmptyRecord
    /\ calls = <<>>
    /\ pc = "init_args"
    /\ threshold \in Thresholds
    /\ req_n \in 0..MaxN
    /\ states = <<>>
    /\ lqs = NoState
    /\ InitCalls
    /\ InitMatrix

NextInit == PushEntry \/ Build

SpecInit == InitInit /\ [][NextInit]_vars

\* -------------------------------------------- apply_op, measure, get_state

\* utils::flip_bits(n, num): the n-bit reflection of num.
RECURSIVE flip_bits(_, _)
flip_bits(n, num) ==
    IF n = 0 THEN 0 ELSE Shl(num % 2, n - 1) + flip_bits(n - 1, Shr(num, 1))

\* What a kernel (state_ops::apply_op, measurement_ops::measure) can leave in
\* the buffer it is given to write, whatever it read: a vector of the
\* buffer's length, here each basis vector and the vector that holds a
\* different amplitude at every address.
KernelOutputs(n) ==
    {BasisVector(n, k) : k \in 0..(Pow2(n) - 1)} \cup {[a \in 1..Pow2(n) |-> a]}

\* The kernel reads s.state (a shared reference) and writes out into s.arena.
kernel_write(s, out) == [s EXCEPT !.arena = out]

\* A slip: the written buffer is copied over the current one.
copy_back(s) == [s EXCEPT !.state = s.arena]

\* std::mem::swap(&mut self.state, &mut self.arena): the two Vecs exchange
\* their allocations.
swap(s) ==
    [s EXCEPT !.state = s.arena, !.state_buf = s.arena_buf,
              !.arena = s.state, !.arena_buf = s.state_buf]

ApplyOp ==
    /\ pc = "ready"
    /\ ncalls < MaxCalls
    /\ \E out \in KernelOutputs(lqs.n) : lqs' = swap(kernel_write(lqs, out))
    /\ last_call' = [fn |-> "apply_op", found |-> lqs.state, result |-> NoResult]
    /\ ncalls' = ncalls + 1
    /\ UNCHANGED <<graphVars, resolverVars, foldVars, argVars, exported, pending, matrixVars, pc>>

Measure ==
    /\ pc = "ready"
    /\ ncalls < MaxCalls
    /\ \E out \in KernelOutputs(lqs.n) : lqs' = swap(kernel_write(lqs, out))
    /\ \E measured_result \in MeasureResults :
          last_call' = [fn |-> "measure", found |-> lqs.state, result |-> measured_result]
    /\ ncalls' = ncalls + 1
    /\ UNCHANGED <<graphVars, resolverVars, foldVars, argVars, exported, pending, matrixVars, pc>>

\* A slip: the scratch buffer is returned without the pass that fills it.
get_state_unfilled(s, natural) == IF natural THEN s.arena ELSE s.state

\* get_state(self, natural_order): the arena after
\* arena.iter_mut().enumerate().for_each(f), or the state as it is.
get_state(s, natural) ==
    IF natural
    THEN [i \in 1..Len(s.arena) |-> s.state[flip_bits(s.n, i - 1) + 1]]
    ELSE s.state

GetState ==
    /\ pc = "ready"
    /\ \E natural \in BOOLEAN :
          exported' = [returned |-> TRUE, natural_order |-> natural,
                       out |-> get_state(lqs, natural),
                       buf |-> IF natural THEN lqs.arena_buf ELSE lqs.state_buf]
    /\ pc' = "exported"
    /\ UNCHANGED <<graphVars, resolverVars, foldVars, argVars, lqs, ncalls, last_call, pending,
                   matrixVars>>

\* A slip: the closure reads the buffer the pass is writing.
worker_source_arena(s) == s.arena

\* let state = self.state: the buffer the closure f reads.
worker_source(s) == s.state

\* get_state(self, true) with self.multithread set:
\* self.arena.par_iter_mut().enumerate().for_each(f) hands every output
\* position to the thread pool.
ParStart ==
    /\ pc = "ready"
    /\ lqs.multithread
    /\ pending' = DOMAIN lqs.arena
    /\ pc' = "par"
    /\ UNCHANGED <<graphVars, resolverVars, foldVars, argVars, lqs, ncalls, last_call, exported,
                   matrixVars>>

\* One call of f, on any position not yet served:
\* *outputloc = state[flip_bits(n, i)].
ParStep ==
    /\ pc = "par"
    /\ \E o \in pending :
          /\ lqs' = [lqs EXCEPT !.arena[o] = worker_source(lqs)[flip_bits(lqs.n, o - 1) + 1]]
          /\ pending' = pending \ {o}
    /\ UNCHANGED <<graphVars, resolverVars, foldVars, argVars, ncalls, last_call, exported,
                   matrixVars, pc>>

\* for_each has joined every step: self.arena is returned.
ParReturn ==
    /\ pc = "par"
    /\ pending = {}
    /\ exported' = [returned |-> TRUE, natural_order |-> TRUE, out |-> lqs.arena,
                    buf |-> lqs.arena_buf]
    /\ pc' = "exported"
    /\ UNCHANGED <<graphVars, resolverVars, foldVars, argVars, lqs, ncalls, last_call, pending,
                   matrixVars>>

\* LocalQuantumState::new(n), n in 0..MaxN.
InitState ==
    /\ parent = <<NoParent>>
    /\ id = CreationOrder(parent)
    /\ width = <<1>>
    /\ terminal = 1
    /\ entry = "none"
    /\ earlier = <<>>
    /\ heap = EmptyHeap
    /\ frontier_qubits = <<>>
    /\ fn_queue = <<>>
    /\ popped = <<>>
    /\ ops = <<>>
    /\ next_op = 1
    /\ qs = [ctor |-> "none", n |-> 0]
    /\ mr = EmptyRecord
    /\ calls = <<>>
    /\ pc = "ready"
    /\ threshold \in Thresholds
    /\ req_n \in 0..MaxN
    /\ states = <<>>
    /\ lqs = new_from_initial_states(req_n, states)
    /\ InitCalls
    /\ InitMatrix

NextState == ApplyOp \/ Measure \/ GetState

SpecState == InitState /\ [][NextState]_vars

\* The calls on a state, with the natural-order export of a multithread state
\* followed step by step.
NextPar == ApplyOp \/ Measure \/ ParStart \/ ParStep \/ ParReturn

SpecPar == InitState /\ [][NextPar]_vars

\* ------------------------------------------------------------ the pipeline

InitPipeline(graphs, entries) ==
    /\ \E g \in graphs :
          /\ parent = g
          /\ width \in Widths(g)
          /\ id = CreationOrder(g)
          /\ terminal = Len(g)
    /\ entry \in entries
    /\ earlier = <<>>
    /\ pc = "start"
    /\ heap = EmptyHeap
    /\ frontier_qubits = <<>>
    /\ fn_queue = <<>>
    /\ popped = <<>>
    /\ ops = <<>>
    /\ next_op = 1
    /\ qs = [ctor |-> "none", n |-> 0]
    /\ mr = EmptyRecord
    /\ calls = <<>>
    /\ threshold = 0
    /\ req_n = 0
    /\ states = <<>>
    /\ lqs = NoState
    /\ InitCalls
    /\ InitMatrix

\* run(q) up to the state it builds: the resolver on every graph of at most
\* MaxQubits handles.
Init == InitPipeline(TerminalGraphs(MaxQubits, ResolverModifiers), {"run"})

Next ==
    \/ ResolveStart
    \/ ResolveStep
    \/ ResolveReturn
    \/ BuildState

Spec == Init /\ [][Next]_vars

\* Any assignment of distinct ids to the handles of g: Ord for Qubit compares
\* the id, whatever gave it.
Priorities(g) ==
    {f \in [DOMAIN g -> DOMAIN g] : \A a \in DOMAIN g : \A b \in DOMAIN g : a # b => f[a] # f[b]}

\* run(q) on every graph of at most MaxQubits handles (origins of one index
\* each), under every assignment of distinct ids.
InitPriorities ==
    /\ \E g \in TerminalGraphs(MaxQubits, ResolverModifiers) :
          /\ parent = g
          /\ width = [q \in DOMAIN g |-> 1]
          /\ id \in Priorities(g)
          /\ terminal = Len(g)
    /\ entry = "run"
    /\ earlier = <<>>
    /\ pc = "start"
    /\ heap = EmptyHeap
    /\ frontier_qubits = <<>>
    /\ fn_queue = <<>>
    /\ popped = <<>>
    /\ ops = <<>>
    /\ next_op = 1
    /\ qs = [ctor |-> "none", n |-> 0]
    /\ mr = EmptyRecord
    /\ calls = <<>>
    /\ threshold = 0
    /\ req_n = 0
    /\ states = <<>>
    /\ lqs = NoState
    /\ InitCalls
    /\ InitMatrix

SpecPriorities == InitPriorities /\ [][Next]_vars

\* The same, with the scheduling of sequential code: get_opfns_and_frontier
\* and its caller run on one thread that takes its next step whenever it has
\* one.
SpecLive == Init /\ [][Next]_vars /\ WF_vars(Next)

\* run(q) and run_with_init(q, states) to their return, on every graph of at
\* most MaxRunQubits handles and every kind of modifier.
InitRun == InitPipeline(TerminalGraphs(MaxRunQubits, Modifiers), {"run", "run_with_init"})

NextRun ==
    \/ ResolveStart
    \/ ResolveStep
    \/ ResolveReturn
    \/ BuildState
    \/ fold_modify_state
    \/ RunReturn

SpecRun == InitRun /\ [][NextRun]_vars

\* The caller keeps the record a run returned and calls the entry point again
\* on the same handle.
RunAgain ==
    /\ pc = "done"
    /\ Len(earlier) + 1 < MaxRuns
    /\ earlier' = Append(earlier, mr)
    /\ pc' = "start"
    /\ UNCHANGED <<parent, id, width, terminal, entry, resolverVars, foldVars, stateVars>>

NextRuns ==
    \/ ResolveStart
    \/ ResolveStep
    \/ ResolveReturn
    \/ BuildState
    \/ fold_modify_state
    \/ RunReturn
    \/ RunAgain

\* Up to MaxRuns runs of run or run_with_init, one after the other, on the
\* graphs whose origins have one index each: the record does not depend on
\* the widths.
InitRuns == InitRun /\ \A q \in Nodes : width[q] = 1

SpecRuns == InitRuns /\ [][NextRuns]_vars

\* ----------------------------------------------------- make_circuit_matrix

\* (0 .. n).collect()
RECURSIVE IndicesUpTo(_)
IndicesUpTo(n) == IF n = 0 THEN <<>> ELSE Append(IndicesUpTo(n - 1), n - 1)

\* A slip: the two orders are exchanged.
ColumnIndexSwapped(n, i, natural) == IF natural THEN flip_bits(n, i) ELSE i

\* let indx = if natural_order { i } else { flip_bits(n, i) }
ColumnIndex(n, i, natural) == IF natural THEN i ELSE flip_bits(n, i)

\* The row copied from the state the run returned.
MatrixRow(s, n, natural) ==
    [i \in 1..Len(s.state) |->
        s.state[(IF natural THEN flip_bits(n, i - 1) ELSE i - 1) + 1]]

\* run_local_with_init(&q, &[(indices.clone(), InitialState::Index(indx))])
MatrixCall ==
    /\ pc = "matrix"
    /\ mat_i < Shl(1, mat_n)
    /\ states' = <<Index(IndicesUpTo(mat_n), ColumnIndex(mat_n, mat_i, natural_order))>>
    /\ entry' = "run_local_with_init"
    /\ pc' = "start"
    /\ UNCHANGED <<parent, id, width, terminal, earlier, resolverVars, foldVars, threshold, req_n,
                   lqs, callVars, matrixVars>>

\* The closure of run_with_init with QS = LocalQuantumState, and the fold's
\* initial accumulator.
BuildLocal ==
    /\ pc = "build"
    /\ entry = "run_local_with_init"
    /\ req_n' = SumWidths(frontier_qubits)
    /\ lqs' = new_from_initial_states(SumWidths(frontier_qubits), states)
    /\ qs' = [ctor |-> "new_from_initial_states", n |-> SumWidths(frontier_qubits)]
    /\ mr' = EmptyRecord
    /\ calls' = <<>>
    /\ next_op' = 1
    /\ pc' = "fold"
    /\ UNCHANGED <<graphVars, resolverVars, ops, threshold, states, callVars, matrixVars>>

\* The row of the run that returned is collected.
MatrixCollect ==
    /\ pc = "done"
    /\ entry = "run_local_with_init"
    /\ mat' = Append(mat, MatrixRow(lqs, mat_n, natural_order))
    /\ mat_i' = mat_i + 1
    /\ pc' = "matrix"
    /\ UNCHANGED <<graphVars, resolverVars, foldVars, argVars, lqs, callVars, mat_n, natural_order>>

\* Every row is collected: the matrix is returned.
MatrixReturn ==
    /\ pc = "matrix"
    /\ mat_i = Shl(1, mat_n)
    /\ pc' = "matrix_done"
    /\ UNCHANGED <<graphVars, resolverVars, foldVars, stateVars>>

\* make_circuit_matrix(n, q, natural_order) on the circuit without
\* operations: q is an origin of n indices.
InitMatrixSpec ==
    /\ mat_n \in 1..MaxMatrixN
    /\ natural_order \in BOOLEAN
    /\ mat_i = 0
    /\ mat = <<>>
    /\ parent = <<NoParent>>
    /\ id = CreationOrder(parent)
    /\ width = <<mat_n>>
    /\ terminal = 1
    /\ entry = "none"
    /\ earlier = <<>>
    /\ heap = EmptyHeap
    /\ frontier_qubits = <<>>
    /\ fn_queue = <<>>
    /\ popped = <<>>
    /\ ops = <<>>
    /\ next_op = 1
    /\ qs = [ctor |-> "none", n |-> 0]
    /\ mr = EmptyRecord
    /\ calls = <<>>
    /\ pc = "matrix"
    /\ threshold \in Thresholds
    /\ req_n = 0
    /\ states = <<>>
    /\ lqs = NoState
    /\ InitCalls

NextMatrix ==
    \/ MatrixCall
    \/ ResolveStart
    \/ ResolveStep
    \/ ResolveReturn
    \/ BuildLocal
    \/ RunReturn
    \/ MatrixCollect
    \/ MatrixReturn

SpecMatrix == InitMatrixSpec /\ [][NextMatrix]_vars

\* ------------------------------------------------------------- properties

HasModifier(q) == parent[q].tag = "Owned" /\ parent[q].modifier # NoModifier
IsOrigin(q) == parent[q].tag = "None"
Ancestors(q) == Reach(parent, q) \ {q}
Positions(seq, x) == {i \in 1..Len(seq) : seq[i] = x}
Resolved == pc \in {"build", "fold", "done"}
\* The handles two or more Shared relations point to.
SharedAncestors ==
    {p \in Nodes : Cardinality({q \in Nodes : parent[q] = Shared(p)}) >= 2}
Origins == {q \in Reach(parent, terminal) : IsOrigin(q)}

RECURSIVE SumWidthOf(_)
SumWidthOf(S) ==
    IF S = {} THEN 0
    ELSE LET q == CHOOSE x \in S : TRUE IN width[q] + SumWidthOf(S \ {q})

\* C1: in the sequence the resolver returns, the modifier of an Owned qubit
\* comes after the modifier of each of its proper ancestors that carries one.
C1_CausalOrder ==
    Resolved =>
        \A q \in Reach(parent, terminal) : \A a \in Ancestors(q) :
            (HasModifier(q) /\ HasModifier(a)) =>
                /\ Positions(ops, q) # {}
                /\ Positions(ops, a) # {}
                /\ \A i \in Positions(ops, q) : \A j \in Positions(ops, a) : j < i

\* A returned sequence of three modifiers, one of them behind a Shared link.
C1_Witness ==
    /\ pc = "build"
    /\ Len(ops) >= 3
    /\ \E q \in Nodes : \E s \in Ancestors(q) : \E a \in Ancestors(s) :
          HasModifier(q) /\ parent[s].tag = "Shared" /\ HasModifier(a)

\* C2: on a graph with a diamond the returned sequence holds the modifier of
\* every reachable Owned qubit exactly once, and a shared ancestor and each of
\* its ancestors is popped from the heap exactly once.
C2_ExactlyOnce ==
    (Resolved /\ SharedAncestors # {}) =>
        /\ \A q \in Reach(parent, terminal) :
              Cardinality(Positions(ops, q)) = IF HasModifier(q) THEN 1 ELSE 0
        /\ \A p \in SharedAncestors : \A a \in Reach(parent, p) :
              Cardinality(Positions(popped, a)) = 1

\* A diamond whose shared ancestor carries a modifier has been resolved.
C2_Witness ==
    /\ pc = "build"
    /\ \E p \in SharedAncestors : HasModifier(p) /\ p \in Ancestors(terminal)

\* C3: the returned frontier holds every reachable origin exactly once and
\* nothing else, the qubit count of run is the sum of the origins' widths, and
\* a terminal origin gives the frontier of that one qubit and no modifier.
C3_Frontier ==
    /\ Resolved =>
          /\ \A q \in Nodes :
                Cardinality(Positions(frontier_qubits, q)) = IF q \in Origins THEN 1 ELSE 0
          /\ IsOrigin(terminal) => (frontier_qubits = <<terminal>> /\ ops = <<>>)
    /\ pc \in {"fold", "done"} => qs.n = SumWidthOf(Origins)

\* The state has been sized from a frontier whose origin of width 2 is reached
\* through two Shared links, next to another origin.
C3_Witness ==
    /\ pc = "fold"
    /\ Len(frontier_qubits) >= 2
    /\ \E p \in SharedAncestors : IsOrigin(p) /\ width[p] = 2

\* C4: the k-th call made on the state is the one for the k-th modifier of
\* the resolved sequence (apply_op for a UnitaryOp, measure for a
\* MeasureState), the state is built once, before the first call, and the fold
\* returns after the call for the last modifier.
C4_FoldOrder ==
    /\ pc \in {"start", "resolve", "build"} => calls = <<>>
    /\ pc \in {"fold", "done"} =>
          /\ Len(calls) = next_op - 1
          /\ Len(calls) <= Len(ops)
          /\ \A k \in 1..Len(calls) :
                /\ calls[k].modifier = ops[k]
                /\ calls[k].fn = IF parent[ops[k]].modifier.kind = "UnitaryOp"
                                 THEN "apply_op" ELSE "measure"
          /\ qs = state_builder(frontier_qubits)
    /\ pc = "done" => Len(calls) = Len(ops)

\* A run of run_with_init has returned after a unitary, a measurement and a
\* third call, in this order of the sequence.
C4_Witness ==
    /\ pc = "done"
    /\ entry = "run_with_init"
    /\ Len(calls) = 3
    /\ calls[1].fn = "apply_op"
    /\ calls[2].fn = "measure"

\* The positions of the sequence whose modifier is MeasureState(m, _).
MeasuresOf(m) == {k \in 1..Len(ops) : parent[ops[k]].modifier = MeasureState(m)}
Last(S) == CHOOSE k \in S : \A j \in S : j <= k

\* C5: after a run the record holds, under each measurement id of the
\* sequence, the result of the measure call of the last modifier with that
\* id, and holds no other key.
C5_Overwrite ==
    pc = "done" =>
        /\ DOMAIN mr = {m \in 1..MaxMeasureId : MeasuresOf(m) # {}}
        /\ \A m \in DOMAIN mr : mr[m] = calls[Last(MeasuresOf(m))].result

\* Two measurements under one id returned different results, with a
\* measurement under another id between them.
C5_Witness ==
    /\ pc = "done"
    /\ \E m \in DOMAIN mr : \E i \in MeasuresOf(m) : \E j \in MeasuresOf(m) :
          /\ i + 1 < j
          /\ calls[i].result # calls[j].result
          /\ parent[ops[i + 1]].modifier.kind = "MeasureState"
          /\ parent[ops[i + 1]].modifier.id # m

\* The qubit count a call is to build: the count asked, or one more than the
\* largest index named when that is larger.
ExpectedN ==
    SetMax({req_n} \cup {x + 1 : x \in AllIndices(states)})

IndexSet(e) == {states[e].indices[j] : j \in DOMAIN states[e].indices}
\* The entries' index sets are pairwise disjoint.
Disjoint ==
    \A e \in DOMAIN states : \A f \in DOMAIN states :
        e # f => IndexSet(e) \cap IndexSet(f) = {}

\* Bit of address addr that belongs to qubit index x: index 0 is the top bit.
AddressBit(addr, x) == Shr(addr, ExpectedN - 1 - x) % 2

\* The sub-index of entry e that addr encodes: bit j of it is the address bit
\* of the entry's j-th index.
RECURSIVE SubIndexFrom(_, _, _)
SubIndexFrom(addr, e, j) ==
    IF j > Len(states[e].indices) THEN 0
    ELSE Shl(AddressBit(addr, states[e].indices[j]), j - 1) + SubIndexFrom(addr, e, j + 1)
SubIndex(addr, e) == SubIndexFrom(addr, e, 1)

RECURSIVE FullProduct(_, _)
FullProduct(addr, e) ==
    IF e > Len(states) THEN 1
    ELSE (IF states[e].kind = "FullState" THEN states[e].vals[SubIndex(addr, e) + 1] ELSE 1)
         * FullProduct(addr, e + 1)

\* The amplitude of the tensor product at addr.
TensorAmplitude(addr) ==
    IF /\ \A x \in (0..(ExpectedN - 1)) \ AllIndices(states) : AddressBit(addr, x) = 0
       /\ \A e \in DOMAIN states :
             states[e].kind = "Index" => SubIndex(addr, e) = states[e].index
    THEN FullProduct(addr, 1)
    ELSE 0

\* C7: for entries with pairwise disjoint index sets the vector built has
\* length 2^n and holds at every address the product of the FullState
\* amplitudes at the sub-indices the address encodes, where the address
\* encodes every Index entry's index and has 0 at every uncovered bit, and 0
\* at every other address; with no entry it is 1 at address 0 and 0 elsewhere.
C7_Tensor ==
    (pc = "built" /\ Disjoint) =>
        /\ ~lqs.panicked
        /\ Len(lqs.state) = Pow2(ExpectedN)
        /\ \A addr \in 0..(Pow2(ExpectedN) - 1) : lqs.state[addr + 1] = TensorAmplitude(addr)
        /\ states = <<>> =>
              lqs.state = [a \in 1..Pow2(req_n) |-> IF a = 1 THEN 1 ELSE 0]

\* Two FullState entries without zeros over two different indices were
\* combined, and the product of two of their amplitudes is in the vector.
C7_Witness ==
    /\ pc = "built"
    /\ Disjoint
    /\ Len(states) = 2
    /\ states[1].kind = "FullState" /\ states[1].vals = <<2, 4>>
    /\ states[2].kind = "FullState" /\ states[2].vals = <<3, 9>>
    /\ states[1].indices = <<1>>
    /\ \E a \in DOMAIN lqs.state : lqs.state[a] = 4 * 3

\* C10: every call builds a state, with the qubit count max(n, 1 + largest
\* index named), two buffers of length 2 to that count and the multithread
\* flag decided from that count.
C10_SilentWidening ==
    pc = "built" =>
        /\ ~lqs.panicked
        /\ lqs.n = ExpectedN
        /\ Len(lqs.state) = Pow2(ExpectedN)
        /\ Len(lqs.arena) = Pow2(ExpectedN)
        /\ lqs.multithread = (ExpectedN > threshold)

\* The part of C10 the code keeps: a call that returns has built the widened
\* state.
WidenedWhenBuilt ==
    (pc = "built" /\ ~lqs.panicked) =>
        /\ lqs.n = ExpectedN
        /\ Len(lqs.state) = Pow2(ExpectedN)
        /\ Len(lqs.arena) = Pow2(ExpectedN)
        /\ lqs.multithread = (ExpectedN > threshold)

\* A call that named an index at or beyond the count asked has returned.
WidenedReached ==
    pc = "built" /\ ~lqs.panicked /\ lqs.n > req_n /\ lqs.multithread

\* Every FullState entry gives a vector over the whole sub-basis of its indices.
FullLengths ==
    \A e \in DOMAIN states :
        states[e].kind = "FullState" => Len(states[e].vals) = Pow2(Len(states[e].indices))

\* The addresses the call writes: template + accumulated offset, for every
\* combination i of the FullState sub-indices.
WrittenAddresses ==
    {WriteAddress(FoldFull(ExpectedN, states, i,
                           [panicked |-> FALSE, superindex |-> 0, offset |-> 0, val |-> 1]).superindex,
                  Template(ExpectedN, states, 0))
        : i \in 0..(Shl(1, NFullIndices(states)) - 1)}

\* C11: for every list of entries whose FullState vectors have length
\* 2^|indices|, disjoint or overlapping, every address the call writes is
\* below 2^n, and the call returns a vector of length 2^n.
C11_NoFatalFailure ==
    (pc = "built" /\ FullLengths) =>
        /\ \A addr \in WrittenAddresses : addr < Pow2(ExpectedN)
        /\ ~lqs.panicked
        /\ Len(lqs.state) = Pow2(ExpectedN)

\* What the code does with overlapping entries: a call ends in a panic exactly
\* when it writes an address at or beyond 2^n, and only lists that name an
\* index in two entries do so.
PanicsOnlyOnOverlap ==
    pc = "built" =>
        /\ lqs.panicked <=> (\E addr \in WrittenAddresses : addr >= Pow2(ExpectedN))
        /\ lqs.panicked => ~Disjoint

\* An Index entry and a FullState entry naming the same index ended the call
\* in a panic.
IndexOverlapPanicked ==
    /\ pc = "built"
    /\ lqs.panicked
    /\ Len(states) = 2
    /\ states[1].kind = "Index"
    /\ states[2].kind = "FullState"

\* Overlapping entries whose contributions stay within the vector: the call
\* returned.
OverlapReturned ==
    /\ pc = "built"
    /\ ~lqs.panicked
    /\ ~Disjoint
    /\ \E e \in DOMAIN states : states[e].kind = "FullState"

\* The vector v read through the n-bit reflection of its positions.
Reflected(n, v) == [i \in 1..Len(v) |-> v[flip_bits(n, i - 1) + 1]]

\* C6: after k apply_op and measure calls the current buffer is the
\* allocation the state began with when k is even and the one the arena began
\* with when k is odd; the buffer the last call found current is now the
\* arena, as the call found it; both buffers have length 2^n, and n and the
\* multithread flag are as built.
C6_DoubleBuffer ==
    pc \in {"ready", "exported"} =>
        /\ lqs.state_buf = IF ncalls % 2 = 0 THEN "clone" ELSE "cvec"
        /\ lqs.arena_buf = IF ncalls % 2 = 0 THEN "cvec" ELSE "clone"
        /\ ncalls > 0 => lqs.arena = last_call.found
        /\ Len(lqs.state) = Pow2(req_n)
        /\ Len(lqs.arena) = Pow2(req_n)
        /\ lqs.n = req_n
        /\ lqs.multithread = (req_n > threshold)

\* Three calls, a measure among them, were made on a two-qubit state and each
\* left a different vector.
C6_Witness ==
    /\ pc = "ready"
    /\ ncalls = 3
    /\ lqs.n = 2
    /\ last_call.fn = "measure"
    /\ lqs.state # lqs.arena
    /\ lqs.state_buf = "cvec"

\* C8: get_state(false) returns the current buffer as it is; get_state(true)
\* returns a vector of the same length whose position i holds the current
\* buffer's position flip_bits(n, i), and reflecting the positions of that
\* vector again gives the current buffer back.
C8_Export ==
    pc = "exported" =>
        /\ ~exported.natural_order =>
              /\ exported.out = lqs.state
              /\ exported.buf = lqs.state_buf
        /\ exported.natural_order =>
              /\ Len(exported.out) = Len(lqs.state)
              /\ \A i \in 0..(Len(lqs.state) - 1) :
                    exported.out[i + 1] = lqs.state[flip_bits(lqs.n, i) + 1]
              /\ Reflected(lqs.n, exported.out) = lqs.state

\* A two-qubit state was exported in natural order after an odd number of
\* swaps, and the export differs from the internal order.
C8_Witness ==
    /\ pc = "exported"
    /\ exported.natural_order
    /\ ncalls % 2 = 1
    /\ lqs.n = 2
    /\ exported.out # lqs.state
    /\ exported.out # lqs.arena

C12_Termination ==
    <>(/\ pc = "build"
       /\ HeapLen(heap) = 0
       /\ \A q \in Origins : Positions(frontier_qubits, q) # {})

\* The loop returned after popping five handles, a shared ancestor among
\* them, with two origins in the frontier.
C12_Witness ==
    /\ pc = "build"
    /\ HeapLen(heap) = 0
    /\ Len(popped) = 5
    /\ SharedAncestors # {}
    /\ Len(frontier_qubits) = 2

\* The measure that bounds the loop: the number of pops a handle can cause,
\* itself and those of its parents; each iteration takes a handle off the
\* heap and puts at most its parents on it, so the sum over the heap falls.
RECURSIVE SetSum(_, _)
SetSum(f, S) ==
    IF S = {} THEN 0
    ELSE LET x == CHOOSE y \in S : TRUE IN f[x] + SetSum(f, S \ {x})
RECURSIVE PopsFrom(_)
PopsFrom(k) ==
    IF k = 0 THEN <<>>
    ELSE LET below == PopsFrom(k - 1)
         IN Append(below, 1 + SetSum(below, parent[k].parents))
RECURSIVE PendingWork(_, _)
PendingWork(h, k) ==
    IF k = 0 THEN 0
    ELSE h[k] * PopsFrom(Len(parent))[k] + PendingWork(h, k - 1)
LoopVariant ==
    [][(pc = "resolve" /\ pc' = "resolve") =>
            PendingWork(heap', Len(parent)) < PendingWork(heap, Len(parent))]_vars
\* The measurement ids of the MeasureState modifiers among the first k
\* modifiers of the resolved sequence.
IdsProcessed(k) ==
    {parent[ops[j]].modifier.id : j \in {i \in 1..k : parent[ops[i]].modifier.kind = "MeasureState"}}

\* One step of the fold: the record before and after it.
FoldStepFrame ==
    (pc = "fold" /\ next_op' = next_op + 1) =>
        /\ DOMAIN mr \subseteq DOMAIN mr'
        /\ parent[ops[next_op]].modifier.kind = "UnitaryOp" => mr' = mr
        /\ parent[ops[next_op]].modifier.kind = "MeasureState" =>
              \A k \in DOMAIN mr \ {parent[ops[next_op]].modifier.id} : mr'[k] = mr[k]

\* C13: every run starts its fold from the empty record, whatever an earlier
\* run returned; after each fold step the record's keys are the measurement
\* ids of the MeasureState modifiers processed so far in this run; a UnitaryOp
\* step leaves the record as it was, a MeasureState step leaves the entries of
\* the other ids as they were, and no step removes a key.
C13_RecordGrows ==
    /\ [](pc \in {"fold", "done"} => DOMAIN mr = IdsProcessed(next_op - 1))
    /\ [][pc' = "fold" /\ pc # "fold" => mr' = EmptyRecord]_vars
    /\ [][FoldStepFrame]_vars

\* A second run is in its fold, one measurement made, and its record lacks a
\* key of the record the first run returned.
C13_Witness ==
    /\ pc = "fold"
    /\ Len(earlier) = 1
    /\ Len(calls) >= 2
    /\ mr # EmptyRecord
    /\ \E k \in DOMAIN earlier[1] : k \notin DOMAIN mr
\* The positions at which two vectors of one length differ.
Changed(v, w) == {i \in DOMAIN v : v[i] # w[i]}

\* C14: while the steps of a parallel export run, each step writes one slot
\* of the arena, the slot of its own position, and none writes the current
\* buffer; one step runs per output position; and whatever order the steps
\* ran in, the vector returned is the one the sequential path returns.
C14_RaceFree ==
    /\ [][pc = "par" =>
            /\ lqs'.state = lqs.state
            /\ Changed(lqs.arena, lqs'.arena) \subseteq (pending \ pending')
            /\ Cardinality(pending \ pending') <= 1
            /\ pending' \subseteq pending]_vars
    /\ [][pc = "ready" /\ pc' = "par" => pending' = 1..Pow2(lqs.n)]_vars
    /\ []((pc = "exported" /\ exported.natural_order) =>
              /\ pending = {}
              /\ exported.out = get_state(lqs, TRUE)
              /\ exported.buf = lqs.arena_buf)

\* A two-qubit multithread state was exported in natural order after an odd
\* number of calls; the export differs from the internal order and from what
\* the arena held before the pass.
C14_Witness ==
    /\ pc = "exported"
    /\ lqs.multithread
    /\ exported.natural_order
    /\ lqs.n = 2
    /\ ncalls % 2 = 1
    /\ exported.out # lqs.state
    /\ exported.out # last_call.found

\* The steps of a pass on a two-qubit state have run out of position order:
\* the last position is served and the first is not.
OutOfOrder ==
    /\ pc = "par"
    /\ lqs.n = 2
    /\ 1 \in pending
    /\ 4 \notin pending
\* The returned sequence holds the modifier of every reachable Owned qubit
\* once, after the modifiers of all its ancestors.
OrderedOnce ==
    /\ \A q \in Reach(parent, terminal) :
          Cardinality(Positions(ops, q)) = IF HasModifier(q) THEN 1 ELSE 0
    /\ \A q \in Reach(parent, terminal) : \A a \in Ancestors(q) :
          (HasModifier(q) /\ HasModifier(a)) =>
              \A i \in Positions(ops, q) : \A j \in Positions(ops, a) : j < i

\* C15 as stated: under every assignment of distinct priorities the returned
\* sequence places each modifier after those it depends on and holds each
\* reachable modifier exactly once.
C15_AnyPriority == Resolved => OrderedOnce

\* Every handle's id is above the ids of its parents, as creation gives them.
ParentsBelow == \A q \in Nodes : \A p \in parent[q].parents : id[p] < id[q]

\* C15 amended: under every assignment of distinct priorities that puts
\* every qubit above its parents, the returned sequence places each modifier
\* after those it depends on and holds each reachable modifier exactly once.
C15_ParentsBelow == (Resolved /\ ParentsBelow) => OrderedOnce

\* A diamond whose shared ancestor carries a modifier was resolved under ids
\* that are above the parents' but are not the creation ranks.
C15_Witness ==
    /\ pc = "build"
    /\ ParentsBelow
    /\ id # CreationOrder(parent)
    /\ Len(ops) >= 2
    /\ \E p \in SharedAncestors : HasModifier(p) /\ p \in Ancestors(terminal)

\* What the priorities decide beyond the pop order: without a Shared relation
\* every assignment gives a sequence that holds each modifier once, after
\* those it depends on.
OwnedOnlyAnyPriority ==
    (Resolved /\ \A q \in Nodes : parent[q].tag # "Shared") => OrderedOnce

\* Under any priorities every occurrence of a modifier still has an
\* occurrence of each modifier it depends on before it.
DependenciesBefore ==
    Resolved =>
        \A q \in Reach(parent, terminal) : \A a \in Ancestors(q) :
            (HasModifier(q) /\ HasModifier(a)) =>
                \A i \in Positions(ops, q) : \E j \in Positions(ops, a) : j < i
\* The call was given one entry, over indices within [0, n).
SingleEntryWithin ==
    /\ Len(states) = 1
    /\ \A x \in AllIndices(states) : x < req_n

====
